---- MODULE Spec2Model ----
(***************************************************************************)
(* interprog: the synchronous TaskManager of src/rust/src/manager.rs with  *)
(* the Task and Status values of src/rust/src/task.rs and the errors of    *)
(* src/rust/src/errors.rs.                                                 *)
(*                                                                         *)
(* An Option<T> is a sequence of length at most one: <<>> is None and      *)
(* <<x>> is Some(x).  A usize is a natural number below 2^UsizeBits.       *)
(*                                                                         *)
(* Spec is the manager given tasks built with Task::new and Task::total,   *)
(* by a caller that only reads what get_task hands out, in a process whose *)
(* standard output can be written.  SpecAnyTask adds tasks written out as  *)
(* struct literals and a manager loaded through Deserialize.               *)
(* SpecAnyCaller adds, to the written out tasks, writes through get_task's *)
(* reference and a standard output that stops taking writes.               *)
(***************************************************************************)
EXTENDS Integers, Sequences, FiniteSets, Bags, TLC

\* ------------------------------------------------------------- bounds
\* add_task is not called once task_list holds this many names.
MaxQueue == 3
\* Width of the modelled usize.
UsizeBits == 3
\* Largest total given to Task::total, and largest ordinary increment.
MaxTotal == 3
MaxBy == 2
\* The standard output changes only while task_list holds at most this many names.
MaxQueueAtChange == 1
\* The caller writes through a reference of get_task at most this many times.
MaxWrites == 1

\* The task names the caller uses.
Names == {"A", "B"}
UsizeMax == 2^UsizeBits - 1
\* Totals the caller passes to Task::total: none of the work, or MaxTotal units.
Totals == {0, MaxTotal}
\* Increments the caller passes: none, one unit, MaxBy units and the largest usize.
Bys == {0, 1, MaxBy, UsizeMax}
Messages == {"boom"}

\* ------------------------------------------------------------- errors.rs
TaskAlreadyStarted == "TaskAlreadyStarted"
NonexistentTask == "NonexistentTask"
TaskAlreadyExists == "TaskAlreadyExists"
InvalidTaskType == "InvalidTaskType"
TaskAlreadyFinished == "TaskAlreadyFinished"
InterprogError ==
    {TaskAlreadyStarted, NonexistentTask, TaskAlreadyExists, InvalidTaskType,
     TaskAlreadyFinished}
\* Result::Ok(()), and the process aborting with a panic.
Ok == "Ok"
Panic == "Panic"

\* ------------------------------------------------------------- task.rs
Pending(total) == [status |-> "pending", total |-> total]
Running == [status |-> "running"]
InProgress(done, total) == [status |-> "in_progress", done |-> done, total |-> total]
Finished == [status |-> "finished"]
Error(message) == [status |-> "error", message |-> message]

\* Task::new(name)
Task_new(name) == [name |-> name, progress |-> Pending(<<>>)]
\* Task::total(self, new_total)
Task_total(task, new_total) == [task EXCEPT !.progress = Pending(<<new_total>>)]
\* Task::name(self, new_name)
Task_name(task, new_name) == [task EXCEPT !.name = new_name]

\* The tasks a caller builds with Task::new, Task::name and Task::total.
BuiltTasks ==
    {Task_new(n) : n \in Names}
      \cup {Task_total(Task_new(n), t) : n \in Names, t \in Totals}
      \cup {Task_name(Task_total(Task_new(m), t), n) : m \in Names, n \in Names, t \in Totals}

\* ------------------------------------------------------------- manager.rs
VARIABLES
    tasks,      \* inner.tasks: HashMap<String, Task>, a function on the active names
    task_list,  \* inner.task_list: VecDeque<String>
    silent,     \* inner.silent
    aborted,    \* the process has panicked
    call,       \* the last call: its operation, arguments and resolved task name
    result,     \* what the last call returned
    out,        \* the lines the last call wrote to stdout (each a snapshot)
    returned,   \* the Task reference a successful get_task handed back (an Option)
    added,      \* history: the active names that add_task put in, in the order
                \* of the calls
    dropped,    \* history: name -> the Task removed by finish/error, until re-added
    units,      \* history: active name -> the increment_task(name, 1) calls that
                \* acted on it since add_task, or -1 once another call acted on it
    twin,       \* a manager with silent = true given the same calls: its state,
                \* and what its last call returned and printed
    stdout,     \* the process's standard output: "writable", or "failing" (a full
                \* device, a pipe whose reader is gone)
    writes      \* the writes the caller has made through get_task's reference

vars ==
    <<tasks, task_list, silent, aborted, call, result, out, returned, added, dropped,
      units, twin, stdout, writes>>

\* The manager's own state, as the operators below pass it around.
Manager == [tasks |-> tasks, task_list |-> task_list, silent |-> silent]

\* An operation's outcome: the manager after it, its return value, the lines it
\* printed and the task name it worked on (None when it resolved none).
Outcome(m, res, lines, target) ==
    [m |-> m, result |-> res, out |-> lines, target |-> target, acted |-> res = Ok]

\* HashMap::values() on the map f: one element per key, in no order the caller
\* may rely on; a bag, since two keys may hold equal values.
values(f) ==
    [v \in {f[k] : k \in DOMAIN f} |-> Cardinality({k \in DOMAIN f : f[k] = v})]
\* inner.tasks.values().collect::<Vec<_>>(): the active tasks.
Snapshot(m) == values(m.tasks)

\* JSON values: a string, a number, null, and an object, the sequence of its
\* <<key, value>> members in the order serde writes them.
JStr(s) == [string |-> s]
JNum(n) == [number |-> n]
JNull == [null |-> TRUE]
JObj(members) == [object |-> members]

\* Serialize for Status, #[serde(tag = "status")]: the members of the object,
\* the tag first and the variant's fields after it.
Serialize_Status(progress) ==
    CASE progress.status = "pending" ->
           <<<<"status", JStr("pending")>>,
             <<"total", IF progress.total = <<>> THEN JNull ELSE JNum(progress.total[1])>>>>
      [] progress.status = "error" ->
           <<<<"status", JStr("error")>>, <<"message", JStr(progress.message)>>>>
      [] progress.status = "finished" -> <<<<"status", JStr("finished")>>>>
      [] progress.status = "running" -> <<<<"status", JStr("running")>>>>
      [] progress.status = "in_progress" ->
           <<<<"status", JStr("in_progress")>>,
             <<"done", JNum(progress.done)>>,
             <<"total", JNum(progress.total)>>>>

\* Mutant of Serialize_Task: the progress field is #[serde(flatten)]ed.
Serialize_Task_flattened(task) ==
    <<<<"name", JStr(task.name)>>>> \o Serialize_Status(task.progress)
\* Serialize for Task: the fields name and progress, progress an object of its
\* own (the field is not flattened).
Serialize_Task(task) ==
    <<<<"name", JStr(task.name)>>, <<"progress", JObj(Serialize_Status(task.progress))>>>>

\* serde_json::to_string of the Vec of the active tasks: a JSON array with one
\* object per element, here the bag of its objects since the map's order is
\* unspecified.
to_json_string(tasks_vec) == BagOfAll(Serialize_Task, tasks_vec)

\* Mutant of output: the silent flag is not read.
output_always(m) ==
    IF stdout = "failing" THEN [panicked |-> TRUE, lines |-> <<>>]
    ELSE [panicked |-> FALSE, lines |-> <<to_json_string(Snapshot(m))>>]
\* TaskManager::output: nothing when silent; else println! writes one line, the
\* serialised snapshot, and panics when stdout cannot be written.
output(m) ==
    IF m.silent THEN [panicked |-> FALSE, lines |-> <<>>]
    ELSE IF stdout = "failing" THEN [panicked |-> TRUE, lines |-> <<>>]
    ELSE [panicked |-> FALSE, lines |-> <<to_json_string(Snapshot(m))>>]

\* The end of a mutating operation, `self.output(); Ok(())`, with the manager
\* already changed to m: Ok and the line printed, or the panic of output.
output_then_Ok(m, target) ==
    LET printed == output(m) IN
    [Outcome(m, IF printed.panicked THEN Panic ELSE Ok, printed.lines, target)
       EXCEPT !.acted = TRUE]

\* The function f without the key k.
Forget(f, k) == [n \in (DOMAIN f) \ {k} |-> f[n]]
\* Mutant of remove_entry: the entry stays in the map.
remove_entry_kept(f, k) == f
\* HashMap::remove_entry(k) on the map f.
remove_entry(f, k) == Forget(f, k)
\* The function f with key k set to v (Entry::Vacant::insert).
insert(f, k, v) == [n \in (DOMAIN f) \cup {k} |-> IF n = k THEN v ELSE f[n]]

\* Mutant of get_first_task: the front name is taken as it is, stale or not.
get_first_task_front(m) ==
    IF m.task_list = <<>>
    THEN [m |-> m, name |-> <<>>]
    ELSE [m |-> m, name |-> <<Head(m.task_list)>>]
\* Mutant of get_first_task: the name queued last is taken.
get_first_task_back(m) ==
    IF m.task_list = <<>>
    THEN [m |-> m, name |-> <<>>]
    ELSE [m |-> m, name |-> <<m.task_list[Len(m.task_list)]>>]
\* TaskManager::get_first_task: the loop pops stale names off the front.
RECURSIVE get_first_task(_)
get_first_task(m) ==
    IF m.task_list = <<>>
    THEN [m |-> m, name |-> <<>>]
    ELSE IF Head(m.task_list) \in DOMAIN m.tasks
         THEN [m |-> m, name |-> <<Head(m.task_list)>>]
         ELSE get_first_task([m EXCEPT !.task_list = Tail(@)])

\* get_first_task: the guard of its while loop, the front name is not a key of
\* the map.
stale_front(m) == Head(m.task_list) \notin DOMAIN m.tasks
\* Mutant of pop_front: the queue is left as it is.
pop_front_kept(m) == m
\* get_first_task: the body of its while loop, task_list.pop_front().
pop_front(m) == [m EXCEPT !.task_list = Tail(@)]

\* get_first_task run for at most `fuel` iterations of its while loop: `ended`
\* tells whether it returned, `left` how many iterations it did not need.
RECURSIVE get_first_task_within(_, _)
get_first_task_within(m, fuel) ==
    IF m.task_list = <<>>
    THEN [m |-> m, name |-> <<>>, ended |-> TRUE, left |-> fuel]
    ELSE IF ~stale_front(m)
    THEN [m |-> m, name |-> <<Head(m.task_list)>>, ended |-> TRUE, left |-> fuel]
    ELSE IF fuel = 0
    THEN [m |-> m, name |-> <<>>, ended |-> FALSE, left |-> 0]
    ELSE get_first_task_within(pop_front(m), fuel - 1)
\* TaskManager::get_task
get_task(m, task_name) ==
    IF task_name \in DOMAIN m.tasks THEN <<m.tasks[task_name]>> ELSE <<>>

\* Mutant of occupied: no lookup, the task is always inserted.
occupied_never(m, name) == FALSE
\* add_task: inner.tasks.entry(name) is Entry::Occupied.
occupied(m, name) == name \in DOMAIN m.tasks

\* Mutant of add_task: the name is not pushed on the queue.
add_task_unqueued(m, task) ==
    IF occupied(m, task.name)
    THEN Outcome(m, TaskAlreadyExists, <<>>, <<task.name>>)
    ELSE Outcome([m EXCEPT !.tasks = insert(@, task.name, task)],
                 Ok, <<>>, <<task.name>>)
\* Mutant of add_task: a successful add prints the snapshot.
add_task_prints(m, task) ==
    IF occupied(m, task.name)
    THEN Outcome(m, TaskAlreadyExists, <<>>, <<task.name>>)
    ELSE LET m2 == [m EXCEPT !.tasks = insert(@, task.name, task),
                             !.task_list = Append(@, task.name)]
         IN output_then_Ok(m2, <<task.name>>)
\* TaskManager::add_task
add_task(m, task) ==
    IF occupied(m, task.name)
    THEN Outcome(m, TaskAlreadyExists, <<>>, <<task.name>>)
    ELSE Outcome([m EXCEPT !.tasks = insert(@, task.name, task),
                           !.task_list = Append(@, task.name)],
                 Ok, <<>>, <<task.name>>)

\* Mutant of started: an iterative task starts with done 1.
started_at_one(total) == IF total # <<>> THEN InProgress(1, total[1]) ELSE Running
\* start_task: the status a Pending { total } task gets.
started(total) == IF total # <<>> THEN InProgress(0, total[1]) ELSE Running

\* Mutant of start_task: starting a started task succeeds and prints again.
start_task_again(m, task_name) ==
    LET got == get_task(m, task_name) IN
    IF got = <<>> THEN Outcome(m, NonexistentTask, <<>>, <<task_name>>)
    ELSE LET progress == got[1].progress IN
         IF progress.status = "pending"
         THEN LET m2 == [m EXCEPT !.tasks[task_name].progress = started(progress.total)]
              IN output_then_Ok(m2, <<task_name>>)
         ELSE output_then_Ok(m, <<task_name>>)

\* TaskManager::start_task
start_task(m, task_name) ==
    LET got == get_task(m, task_name) IN
    IF got = <<>> THEN Outcome(m, NonexistentTask, <<>>, <<task_name>>)
    ELSE LET progress == got[1].progress IN
         IF progress.status = "pending"
         THEN LET m2 == [m EXCEPT !.tasks[task_name].progress = started(progress.total)]
              IN output_then_Ok(m2, <<task_name>>)
         ELSE Outcome(m, TaskAlreadyStarted, <<>>, <<task_name>>)

\* Mutant of first_increment: the first increment counts `by` units.
first_increment_by(total, by) == InProgress(by, total)
\* Mutant of first_increment: the first increment only starts the task.
first_increment_starts(total, by) == InProgress(0, total)
\* increment_task: the status of a never started iterative task after its first
\* increment (`by` is not read).
first_increment(total, by) == InProgress(1, total)

\* Mutant of is_full: the guard never holds.
is_full_never(done, total) == FALSE
\* Mutant of is_full: the guard is `done > total`.
is_full_strict(done, total) == done > total
\* increment_task: the guard `done >= total`.
is_full(done, total) == done >= total

\* Mutant of spinner_increment: the refused increment starts the spinner.
spinner_increment_starts(m, task_name) ==
    Outcome([m EXCEPT !.tasks[task_name].progress = Running],
            InvalidTaskType, <<>>, <<task_name>>)
\* Mutant of spinner_increment: the call is accepted.
spinner_increment_accepted(m, task_name) == output_then_Ok(m, <<task_name>>)
\* increment_task on a spinner: Running, or Pending without a total.
spinner_increment(m, task_name) == Outcome(m, InvalidTaskType, <<>>, <<task_name>>)

\* TaskManager::increment_task.  `checked` is the build's overflow-checks
\* setting: with it `done + by` panics on overflow, without it the sum wraps.
increment_task(m, task_name, by, checked) ==
    LET got == get_task(m, task_name) IN
    IF got = <<>> THEN Outcome(m, NonexistentTask, <<>>, <<task_name>>)
    ELSE LET progress == got[1].progress IN
         CASE progress.status = "pending" /\ progress.total # <<>> ->
                LET m2 == [m EXCEPT !.tasks[task_name].progress =
                                        first_increment(progress.total[1], by)]
                IN output_then_Ok(m2, <<task_name>>)
           [] progress.status = "in_progress" ->
                IF is_full(progress.done, progress.total)
                THEN Outcome(m, TaskAlreadyFinished, <<>>, <<task_name>>)
                ELSE IF progress.done + by > UsizeMax /\ checked
                THEN Outcome(m, Panic, <<>>, <<task_name>>)
                ELSE LET m2 == [m EXCEPT !.tasks[task_name].progress =
                                    InProgress((progress.done + by) % (UsizeMax + 1),
                                               progress.total)]
                     IN output_then_Ok(m2, <<task_name>>)
           [] progress.status = "running"
                \/ (progress.status = "pending" /\ progress.total = <<>>) ->
                spinner_increment(m, task_name)
           [] progress.status \in {"finished", "error"} ->
                Outcome(m, TaskAlreadyFinished, <<>>, <<task_name>>)

\* Mutant of finish_task: the task is marked Finished and stays in the map.
finish_task_keeps(m, task_name) ==
    LET got == get_task(m, task_name) IN
    IF got = <<>> THEN Outcome(m, NonexistentTask, <<>>, <<task_name>>)
    ELSE output_then_Ok([m EXCEPT !.tasks[task_name].progress = Finished],
                        <<task_name>>)
\* Mutant of finish_task: the name is taken out of the queue with the entry.
finish_task_prunes(m, task_name) ==
    LET got == get_task(m, task_name) IN
    IF got = <<>> THEN Outcome(m, NonexistentTask, <<>>, <<task_name>>)
    ELSE LET m2 == [m EXCEPT !.tasks = remove_entry(@, task_name),
                             !.task_list = SelectSeq(@, LAMBDA n : n # task_name)]
         IN output_then_Ok(m2, <<task_name>>)
\* Mutant of finish_task: the snapshot is printed before the entry is removed.
finish_task_prints_first(m, task_name) ==
    LET got == get_task(m, task_name) IN
    IF got = <<>> THEN Outcome(m, NonexistentTask, <<>>, <<task_name>>)
    ELSE LET m1 == [m EXCEPT !.tasks[task_name].progress = Finished]
             m2 == [m1 EXCEPT !.tasks = remove_entry(@, task_name)]
         IN Outcome(m2, Ok, output(m1).lines, <<task_name>>)
\* TaskManager::finish_task
finish_task(m, task_name) ==
    LET got == get_task(m, task_name) IN
    IF got = <<>> THEN Outcome(m, NonexistentTask, <<>>, <<task_name>>)
    ELSE LET m1 == [m EXCEPT !.tasks[task_name].progress = Finished]
             m2 == [m1 EXCEPT !.tasks = remove_entry(@, task_name)]
         IN output_then_Ok(m2, <<task_name>>)

\* Mutant of error_task: every entry is removed with the failed task's.
error_task_clears(m, task_name, message) ==
    LET got == get_task(m, task_name) IN
    IF got = <<>> THEN Outcome(m, NonexistentTask, <<>>, <<task_name>>)
    ELSE LET m2 == [m EXCEPT !.tasks = [n \in {} |-> @[n]]]
         IN output_then_Ok(m2, <<task_name>>)
\* TaskManager::error_task
error_task(m, task_name, message) ==
    LET got == get_task(m, task_name) IN
    IF got = <<>> THEN Outcome(m, NonexistentTask, <<>>, <<task_name>>)
    ELSE LET m1 == [m EXCEPT !.tasks[task_name].progress = Error(message)]
             m2 == [m1 EXCEPT !.tasks = remove_entry(@, task_name)]
         IN output_then_Ok(m2, <<task_name>>)

\* TaskManager::start
start(m) ==
    LET first == get_first_task(m) IN
    IF first.name = <<>> THEN Outcome(first.m, NonexistentTask, <<>>, <<>>)
    ELSE start_task(first.m, first.name[1])

\* TaskManager::increment
increment(m, by, checked) ==
    LET first == get_first_task(m) IN
    IF first.name = <<>> THEN Outcome(first.m, NonexistentTask, <<>>, <<>>)
    ELSE increment_task(first.m, first.name[1], by, checked)

\* Mutant of finish: the front name is finished, stale or not.
finish_front(m) ==
    IF m.task_list = <<>> THEN Outcome(m, NonexistentTask, <<>>, <<>>)
    ELSE finish_task(m, Head(m.task_list))
\* TaskManager::finish
finish(m) ==
    LET first == get_first_task(m) IN
    IF first.name = <<>> THEN Outcome(first.m, NonexistentTask, <<>>, <<>>)
    ELSE finish_task(first.m, first.name[1])

\* TaskManager::error
error(m, message) ==
    LET first == get_first_task(m) IN
    IF first.name = <<>> THEN Outcome(first.m, NonexistentTask, <<>>, <<>>)
    ELSE error_task(first.m, first.name[1], message)

\* ------------------------------------------------------------- calls
\* No task yet: HashMap::new().
NoTasks == [n \in {} |-> Task_new(n)]

\* The record of a call: the operation and its arguments (None when it has none).
Call(op, name, by, message, task) ==
    [op |-> op, name |-> name, by |-> by, message |-> message, task |-> task,
     target |-> <<>>]

ExplicitOps == {"start_task", "increment_task", "finish_task", "error_task", "get_task"}
ImplicitOps == {"start", "increment", "finish", "error"}
EvictingOps == {"finish_task", "error_task", "finish", "error"}

\* The sequence s without the value x.
Without(s, x) == SelectSeq(s, LAMBDA y : y # x)

\* The history after a call c with outcome o that acted on the manager (it
\* returned Ok, or panicked in output after its change): an add_task appends
\* its name, a finish or error takes the name out and records the Task that
\* remove_entry took out of the map, the entry with its status set.
AddedAfter(c, o) ==
    IF ~o.acted THEN added
    ELSE IF c.op = "add_task" THEN Append(added, o.target[1])
    ELSE IF c.op \in EvictingOps THEN Without(added, o.target[1])
    ELSE added

DroppedAfter(c, o) ==
    IF ~o.acted THEN dropped
    ELSE IF c.op = "add_task" THEN Forget(dropped, o.target[1])
    ELSE IF c.op \in EvictingOps
         THEN insert(dropped, o.target[1],
                     [tasks[o.target[1]] EXCEPT
                        !.progress = IF c.message = <<>> THEN Finished
                                     ELSE Error(c.message[1])])
    ELSE dropped

\* The unit increments after a call c with outcome o: a new task has none, an
\* increment_task(name, 1) that acted counts, any other start, increment or
\* write that acted ends the count.
UnitsAfter(c, o) ==
    IF ~o.acted THEN units
    ELSE IF c.op = "add_task" THEN insert(units, o.target[1], 0)
    ELSE IF c.op \in EvictingOps THEN Forget(units, o.target[1])
    ELSE IF c.op = "increment_task" /\ c.by = <<1>>
         THEN [units EXCEPT ![o.target[1]] = IF @ >= 0 THEN @ + 1 ELSE @]
    ELSE IF c.op = "get_task"
         THEN IF c.task = <<>> THEN units ELSE [units EXCEPT ![o.target[1]] = -1]
    ELSE [units EXCEPT ![o.target[1]] = -1]

\* The silent twin after the same call gave it outcome o2.
TwinAfter(o2) == [m |-> o2.m, result |-> o2.result, out |-> o2.out]

\* A call c returns with outcome o, and with outcome o2 in the silent twin.
Return(c, o, o2, ret) ==
    /\ tasks' = o.m.tasks
    /\ task_list' = o.m.task_list
    /\ silent' = o.m.silent
    /\ aborted' = (o.result = Panic)
    /\ call' = [c EXCEPT !.target = o.target]
    /\ result' = o.result
    /\ out' = o.out
    /\ returned' = ret
    /\ added' = AddedAfter(c, o)
    /\ dropped' = DroppedAfter(c, o)
    /\ units' = UnitsAfter(c, o)
    /\ twin' = TwinAfter(o2)
    /\ stdout' = stdout
    /\ writes' = IF c.op = "get_task" /\ c.task # <<>> THEN writes + 1 ELSE writes

\* TaskManager::new(), in a process whose standard output can be written.
Init ==
    /\ tasks = NoTasks
    /\ task_list = <<>>
    /\ silent = FALSE
    /\ aborted = FALSE
    /\ call = Call("new", <<>>, <<>>, <<>>, <<>>)
    /\ result = Ok
    /\ out = <<>>
    /\ returned = <<>>
    /\ added = <<>>
    /\ dropped = NoTasks
    /\ units = [n \in {} |-> 0]
    /\ twin = [m |-> [tasks |-> NoTasks, task_list |-> <<>>, silent |-> TRUE],
               result |-> Ok, out |-> <<>>]
    /\ stdout = "writable"
    /\ writes = 0

\* The overflow-checks settings that tell builds apart for an increment of `by`:
\* done + by is computed only while done < total <= MaxTotal, so it can pass
\* UsizeMax only when by + MaxTotal - 1 does, and otherwise every build agrees.
Builds(by) == IF by + MaxTotal - 1 > UsizeMax THEN BOOLEAN ELSE {FALSE}

\* The outcome of get_task as a call of its own, the reference it hands out
\* read or dropped: the manager is left as it is.
get_task_call(m, name) ==
    Outcome(m, IF get_task(m, name) = <<>> THEN NonexistentTask ELSE Ok, <<>>, <<name>>)

OpAddTask ==
    /\ ~aborted
    /\ Len(task_list) < MaxQueue
    /\ \E task \in BuiltTasks :
          Return(Call("add_task", <<>>, <<>>, <<>>, <<task>>),
                 add_task(Manager, task), add_task(twin.m, task), <<>>)

OpGetTask ==
    /\ ~aborted
    /\ \E name \in Names :
          Return(Call("get_task", <<name>>, <<>>, <<>>, <<>>),
                 get_task_call(Manager, name), get_task_call(twin.m, name),
                 get_task(Manager, name))

OpStartTask ==
    /\ ~aborted
    /\ \E name \in Names :
          Return(Call("start_task", <<name>>, <<>>, <<>>, <<>>),
                 start_task(Manager, name), start_task(twin.m, name), <<>>)

OpStart ==
    /\ ~aborted
    /\ Return(Call("start", <<>>, <<>>, <<>>, <<>>), start(Manager), start(twin.m), <<>>)

OpIncrementTask ==
    /\ ~aborted
    /\ \E name \in Names, by \in Bys :
       \E checked \in Builds(by) :
          Return(Call("increment_task", <<name>>, <<by>>, <<>>, <<>>),
                 increment_task(Manager, name, by, checked),
                 increment_task(twin.m, name, by, checked), <<>>)

OpIncrement ==
    /\ ~aborted
    /\ \E by \in Bys :
       \E checked \in Builds(by) :
          Return(Call("increment", <<>>, <<by>>, <<>>, <<>>),
                 increment(Manager, by, checked), increment(twin.m, by, checked), <<>>)

OpFinishTask ==
    /\ ~aborted
    /\ \E name \in Names :
          Return(Call("finish_task", <<name>>, <<>>, <<>>, <<>>),
                 finish_task(Manager, name), finish_task(twin.m, name), <<>>)

OpFinish ==
    /\ ~aborted
    /\ Return(Call("finish", <<>>, <<>>, <<>>, <<>>), finish(Manager), finish(twin.m), <<>>)

OpErrorTask ==
    /\ ~aborted
    /\ \E name \in Names, message \in Messages :
          Return(Call("error_task", <<name>>, <<>>, <<message>>, <<>>),
                 error_task(Manager, name, message), error_task(twin.m, name, message),
                 <<>>)

OpError ==
    /\ ~aborted
    /\ \E message \in Messages :
          Return(Call("error", <<>>, <<>>, <<message>>, <<>>),
                 error(Manager, message), error(twin.m, message), <<>>)

Next ==
    \/ OpAddTask
    \/ OpGetTask
    \/ OpStartTask
    \/ OpStart
    \/ OpIncrementTask
    \/ OpIncrement
    \/ OpFinishTask
    \/ OpFinish
    \/ OpErrorTask
    \/ OpError

Spec == Init /\ [][Next]_vars

\* Task's fields are public: a caller can also write a Task value out, in any
\* status, instead of building it.  The tasks written out in a terminal status.
TerminalTasks ==
    {[name |-> n, progress |-> p] :
        n \in Names, p \in {Finished} \cup {Error(message) : message \in Messages}}

\* add_task of a task the caller wrote out in a terminal status.
OpAddTaskLiteral ==
    /\ ~aborted
    /\ Len(task_list) < MaxQueue
    /\ \E task \in TerminalTasks :
          Return(Call("add_task", <<>>, <<>>, <<>>, <<task>>),
                 add_task(Manager, task), add_task(twin.m, task), <<>>)

\* The statuses a caller writes through the &mut Task that get_task hands out.
WrittenStatuses == {Finished, Pending(<<MaxTotal>>), InProgress(MaxTotal, MaxTotal)}

\* The names a caller writes: one of the names in use.
WrittenNames == {"A"}

\* `get_task(name)?.progress = status`: the write lands in the map's entry.
get_task_write_progress(m, name, status) ==
    IF get_task(m, name) = <<>> THEN Outcome(m, NonexistentTask, <<>>, <<name>>)
    ELSE Outcome([m EXCEPT !.tasks[name].progress = status], Ok, <<>>, <<name>>)

\* `get_task(name)?.name = new_name`: the entry keeps its key.
get_task_write_name(m, name, new_name) ==
    IF get_task(m, name) = <<>> THEN Outcome(m, NonexistentTask, <<>>, <<name>>)
    ELSE Outcome([m EXCEPT !.tasks[name].name = new_name], Ok, <<>>, <<name>>)

\* get_task followed by the caller's write through the reference; the call
\* records the Task the write left in the map.
OpGetTaskWrite ==
    /\ ~aborted
    /\ writes < MaxWrites
    /\ \E name \in Names :
          \/ \E status \in WrittenStatuses :
                LET o == get_task_write_progress(Manager, name, status) IN
                Return(Call("get_task", <<name>>, <<>>, <<>>, get_task(o.m, name)),
                       o, get_task_write_progress(twin.m, name, status),
                       get_task(o.m, name))
          \/ \E new_name \in WrittenNames :
                LET o == get_task_write_name(Manager, name, new_name) IN
                Return(Call("get_task", <<name>>, <<>>, <<>>, get_task(o.m, name)),
                       o, get_task_write_name(twin.m, name, new_name),
                       get_task(o.m, name))

\* The standard output stops taking writes (the device fills, the reader of
\* the pipe leaves) or takes them again, between two calls.
StdoutChanges ==
    /\ ~aborted
    /\ Len(task_list) <= MaxQueueAtChange
    /\ stdout' = IF stdout = "writable" THEN "failing" ELSE "writable"
    /\ UNCHANGED <<tasks, task_list, silent, call, result, out, returned, added,
                   dropped, units, twin, aborted, writes>>

\* TaskManager::new()
new == [tasks |-> NoTasks, task_list |-> <<>>, silent |-> FALSE]

\* The managers that <TaskManager as Deserialize>::deserialize loads: the
\* derive checks no relation between the fields, so an active task need not be
\* queued, and silent is what the input says.
LoadedManagers ==
    {[tasks |-> [n \in {"A"} |-> Task_total(Task_new(n), MaxTotal)],
      task_list |-> <<>>, silent |-> TRUE]}

\* The manager is made by TaskManager::new() or loaded.  No add_task put in
\* the tasks of a loaded manager.
InitAnyTask ==
    \E m \in {new} \cup LoadedManagers :
        /\ tasks = m.tasks
        /\ task_list = m.task_list
        /\ silent = m.silent
        /\ aborted = FALSE
        /\ call = Call(IF m = new THEN "new" ELSE "deserialize", <<>>, <<>>, <<>>, <<>>)
        /\ result = Ok
        /\ out = <<>>
        /\ returned = <<>>
        /\ added = <<>>
        /\ dropped = NoTasks
        /\ units = [n \in DOMAIN m.tasks |-> -1]
        /\ twin = [m |-> [m EXCEPT !.silent = TRUE], result |-> Ok, out |-> <<>>]
        /\ stdout = "writable"
        /\ writes = 0

\* TaskManager::new(), in a process whose standard output can be written or
\* cannot.
InitAnyCaller ==
    /\ tasks = new.tasks
    /\ task_list = new.task_list
    /\ silent = new.silent
    /\ aborted = FALSE
    /\ call = Call("new", <<>>, <<>>, <<>>, <<>>)
    /\ result = Ok
    /\ out = <<>>
    /\ returned = <<>>
    /\ added = <<>>
    /\ dropped = NoTasks
    /\ units = [n \in {} |-> 0]
    /\ twin = [m |-> [new EXCEPT !.silent = TRUE], result |-> Ok, out |-> <<>>]
    /\ stdout \in {"writable", "failing"}
    /\ writes = 0

NextAnyTask ==
    \/ OpAddTask
    \/ OpAddTaskLiteral
    \/ OpGetTask
    \/ OpStartTask
    \/ OpStart
    \/ OpIncrementTask
    \/ OpIncrement
    \/ OpFinishTask
    \/ OpFinish
    \/ OpErrorTask
    \/ OpError

\* The manager, made or loaded, driven with built tasks and with tasks written
\* out.
SpecAnyTask == InitAnyTask /\ [][NextAnyTask]_vars

NextAnyCaller ==
    \/ OpAddTask
    \/ OpAddTaskLiteral
    \/ OpGetTask
    \/ OpGetTaskWrite
    \/ OpStartTask
    \/ OpStart
    \/ OpIncrementTask
    \/ OpIncrement
    \/ OpFinishTask
    \/ OpFinish
    \/ OpErrorTask
    \/ OpError
    \/ StdoutChanges

\* The manager driven by a caller that also writes through get_task's
\* reference, in a process whose standard output may stop taking writes.
SpecAnyCaller == InitAnyCaller /\ [][NextAnyCaller]_vars

\* ------------------------------------------------------------- properties
StartOps == {"start_task", "start"}
IncrementOps == {"increment_task", "increment"}

\* The objects of the lines the last call printed.
PrintedObjects == UNION {BagToSet(out[i]) : i \in 1..Len(out)}
\* The top-level keys of a JSON object, and the value of its member `key`.
Keys(members) == {members[i][1] : i \in 1..Len(members)}
Member(members, key) == (CHOOSE i \in 1..Len(members) : members[i][1] = key)
MemberValue(members, key) == members[Member(members, key)][2]
\* The names of the tasks in the lines the last call printed.
PrintedNames == {MemberValue(object, "name").string : object \in PrintedObjects}
\* The names the queue held before its last entry.
QueuedBefore == {task_list[i] : i \in 1..(Len(task_list) - 1)}

\* C1: every implicit-form operation (start, increment, finish, error) acts on
\* the oldest task of the active set, the one whose add_task succeeded earliest
\* among the active tasks, also after a name was added again.
C1_ImplicitActsOnOldest ==
    [][(call'.op \in ImplicitOps /\ added # <<>>) => call'.target = <<Head(added)>>]_vars

\* C2: add_task(task) succeeds if and only if task.name is not active.  On an
\* active name it fails with TaskAlreadyExists and changes neither a task nor the
\* queue; otherwise it inserts the task under its name, leaves the other tasks
\* alone and appends the name to the queue, also for a name used before.
C2_AddTaskIffNotActive ==
    [][call'.op = "add_task" =>
         LET task == call'.task[1] IN
         IF task.name \in DOMAIN tasks
         THEN /\ result' = TaskAlreadyExists
              /\ tasks' = tasks
              /\ task_list' = task_list
         ELSE /\ result' = Ok
              /\ DOMAIN tasks' = DOMAIN tasks \cup {task.name}
              /\ tasks'[task.name] = task
              /\ \A n \in DOMAIN tasks : tasks'[n] = tasks[n]
              /\ task_list' = Append(task_list, task.name)]_vars

\* C2 witness: add_task succeeded for a name the queue already held, a name
\* whose earlier task was finished or errored.
C2_Witness ==
    /\ call.op = "add_task"
    /\ result = Ok
    /\ call.task[1].name \in QueuedBefore
    /\ call.task[1].name \in DOMAIN tasks

\* C3: a successful finish or error takes its task out of the active set, and
\* the snapshot it prints does not hold that task; while the name is not added
\* again the task stays out of the active set and of every snapshot, and
\* start_task, increment_task, finish_task, error_task and get_task on that name
\* fail with NonexistentTask.
C3_EvictedStaysOut ==
    /\ [](\A n \in DOMAIN dropped : n \notin DOMAIN tasks /\ n \notin PrintedNames)
    /\ [][/\ (call'.op \in EvictingOps /\ result' = Ok) =>
                /\ call'.target # <<>>
                /\ call'.target[1] \in DOMAIN tasks
                /\ call'.target[1] \notin DOMAIN tasks'
                /\ call'.target[1] \notin PrintedNames'
          /\ \A n \in DOMAIN dropped :
                (call'.op \in ExplicitOps /\ call'.name = <<n>>) =>
                    /\ result' = NonexistentTask
                    /\ n \notin DOMAIN tasks']_vars

\* C3 witness: finish_task was repeated on the name of a finished task, failed
\* with NonexistentTask, and another task is still active.
C3_Witness ==
    /\ call.op = "finish_task"
    /\ call.name # <<>>
    /\ call.name[1] \in DOMAIN dropped
    /\ dropped[call.name[1]].progress = Finished
    /\ result = NonexistentTask
    /\ DOMAIN tasks # {}

\* C4 (as stated): any operation addressed to a task that has reached the
\* Finished or Error status fails with TaskAlreadyFinished.
C4_TerminalFailsAlreadyFinished ==
    [][\A n \in DOMAIN dropped :
          (/\ dropped[n].progress.status \in {"finished", "error"}
           /\ call'.op \in ExplicitOps
           /\ call'.name = <<n>>) => result' = TaskAlreadyFinished]_vars

\* C4 (amended): a task that has reached Finished or Error by finish or error
\* has left the active set in the same call, and any operation addressed to it
\* by name fails with NonexistentTask.
C4_TerminalFailsNonexistent ==
    [][\A n \in DOMAIN dropped :
          /\ dropped[n].progress.status \in {"finished", "error"}
          /\ (call'.op \in ExplicitOps /\ call'.name = <<n>>) =>
                 result' = NonexistentTask]_vars

\* C4 witness: increment_task on the name of a task that ended in Error failed
\* with NonexistentTask.
C4_Witness ==
    /\ call.op = "increment_task"
    /\ call.name # <<>>
    /\ call.name[1] \in DOMAIN dropped
    /\ dropped[call.name[1]].progress.status = "error"
    /\ result = NonexistentTask

\* C5: a successful start_task or start finds its task Pending and moves it to
\* Running when the total is absent and to InProgress{done: 0, total: t} when
\* the total is Some(t), the name unchanged; no other status results.
C5_StartResult ==
    [][(call'.op \in StartOps /\ result' = Ok) =>
          /\ call'.target # <<>>
          /\ LET n == call'.target[1] IN
             /\ n \in DOMAIN tasks
             /\ n \in DOMAIN tasks'
             /\ tasks[n].progress.status = "pending"
             /\ tasks'[n].name = tasks[n].name
             /\ tasks'[n].progress =
                    IF tasks[n].progress.total = <<>>
                    THEN [status |-> "running"]
                    ELSE [status |-> "in_progress", done |-> 0,
                          total |-> tasks[n].progress.total[1]]]_vars

\* C5 witness: start_task succeeded on an iterative task, now InProgress with
\* done 0 and its total.
C5_Witness ==
    /\ call.op = "start_task"
    /\ result = Ok
    /\ tasks[call.target[1]].progress =
           [status |-> "in_progress", done |-> 0, total |-> MaxTotal]

\* C6: start_task or start on an active task that is Running or InProgress
\* fails with TaskAlreadyStarted, leaves every task as it was and prints
\* nothing; so a start right after a successful start of the same task fails.
C6_StartTwiceFails ==
    [][call'.op \in StartOps =>
          /\ (/\ call'.target # <<>>
              /\ call'.target[1] \in DOMAIN tasks
              /\ tasks[call'.target[1]].progress.status \in {"running", "in_progress"})
                => (result' = TaskAlreadyStarted /\ tasks' = tasks /\ out' = <<>>)
          /\ (call.op \in StartOps /\ result = Ok /\ call'.target = call.target)
                => (result' = TaskAlreadyStarted /\ tasks' = tasks /\ out' = <<>>)]_vars

\* C6 witness: start failed with TaskAlreadyStarted on the current task, a
\* spinner that is still Running.
C6_Witness ==
    /\ call.op = "start"
    /\ result = TaskAlreadyStarted
    /\ tasks[call.target[1]].progress.status = "running"
    /\ out = <<>>

\* C7 (as stated): on an active InProgress task with done < total,
\* increment_task(name, by) succeeds for every by and sets done to done + by,
\* total unchanged.
C7_IncrementAddsBy ==
    [][(/\ call'.op \in IncrementOps
        /\ call'.target # <<>>
        /\ call'.target[1] \in DOMAIN tasks
        /\ tasks[call'.target[1]].progress.status = "in_progress"
        /\ tasks[call'.target[1]].progress.done < tasks[call'.target[1]].progress.total)
         => /\ result' = Ok
            /\ tasks'[call'.target[1]].progress =
                 [status |-> "in_progress",
                  done |-> tasks[call'.target[1]].progress.done + call'.by[1],
                  total |-> tasks[call'.target[1]].progress.total]]_vars

\* C7, the part that holds: the same when done + by fits a usize, with no check
\* on the sum, so that done may pass total.
C7_IncrementAddsByNoOverflow ==
    [][(/\ call'.op \in IncrementOps
        /\ call'.target # <<>>
        /\ call'.target[1] \in DOMAIN tasks
        /\ tasks[call'.target[1]].progress.status = "in_progress"
        /\ tasks[call'.target[1]].progress.done < tasks[call'.target[1]].progress.total
        /\ tasks[call'.target[1]].progress.done + call'.by[1] <= UsizeMax)
         => /\ result' = Ok
            /\ tasks'[call'.target[1]].progress =
                 [status |-> "in_progress",
                  done |-> tasks[call'.target[1]].progress.done + call'.by[1],
                  total |-> tasks[call'.target[1]].progress.total]]_vars

\* C7 witness: increments of 2 and 2 on a total of 3 left done at 4.
C7_Witness ==
    /\ call.op = "increment_task"
    /\ call.by = <<2>>
    /\ result = Ok
    /\ tasks[call.target[1]].progress = [status |-> "in_progress", done |-> 4, total |-> 3]

\* C8: increment_task or increment on an active InProgress task with
\* done >= total fails with TaskAlreadyFinished for every by, leaves every task
\* as it was (the task active, done and total unchanged) and prints nothing.
C8_FullIncrementFails ==
    [][(/\ call'.op \in IncrementOps
        /\ call'.target # <<>>
        /\ call'.target[1] \in DOMAIN tasks
        /\ tasks[call'.target[1]].progress.status = "in_progress"
        /\ tasks[call'.target[1]].progress.done >= tasks[call'.target[1]].progress.total)
         => (result' = TaskAlreadyFinished /\ tasks' = tasks /\ out' = <<>>)]_vars

\* C8 witness: increment by 0 failed with TaskAlreadyFinished on a task whose
\* done equals its total, still active.
C8_Witness ==
    /\ call.op \in IncrementOps
    /\ call.by = <<0>>
    /\ result = TaskAlreadyFinished
    /\ tasks[call.target[1]].progress.status = "in_progress"
    /\ tasks[call.target[1]].progress.done = tasks[call.target[1]].progress.total
    /\ tasks[call.target[1]].progress.total > 0

\* C9: the first increment_task (or increment) on a never started iterative
\* task, Pending{total: Some(t)}, succeeds and moves it to
\* InProgress{done: 1, total: t} for every by and every t; after a successful
\* start of a task with t > 0 an increment(by) succeeds with done = by.
C9_FirstIncrementIsOne ==
    [][call'.op \in IncrementOps =>
          /\ (/\ call'.target # <<>>
              /\ call'.target[1] \in DOMAIN tasks
              /\ tasks[call'.target[1]].progress.status = "pending"
              /\ tasks[call'.target[1]].progress.total # <<>>)
               => /\ result' = Ok
                  /\ tasks'[call'.target[1]].progress =
                       [status |-> "in_progress", done |-> 1,
                        total |-> tasks[call'.target[1]].progress.total[1]]
          /\ (/\ call.op \in StartOps
              /\ result = Ok
              /\ call'.target = call.target
              /\ tasks[call.target[1]].progress.status = "in_progress"
              /\ tasks[call.target[1]].progress.total > 0)
               => /\ result' = Ok
                  /\ tasks'[call'.target[1]].progress.done = call'.by[1]]_vars

\* C9 witness: a first increment_task by the largest usize on a pending task of
\* total 0 succeeded and left it InProgress with done 1.
C9_Witness ==
    /\ call.op = "increment_task"
    /\ call.by = <<UsizeMax>>
    /\ result = Ok
    /\ tasks[call.target[1]].progress = [status |-> "in_progress", done |-> 1, total |-> 0]

\* C10: increment_task or increment on an active spinner, Running or Pending
\* without a total, fails with InvalidTaskType, leaves every task as it was and
\* prints nothing.
C10_SpinnerIncrementFails ==
    [][(/\ call'.op \in IncrementOps
        /\ call'.target # <<>>
        /\ call'.target[1] \in DOMAIN tasks
        /\ \/ tasks[call'.target[1]].progress.status = "running"
           \/ /\ tasks[call'.target[1]].progress.status = "pending"
              /\ tasks[call'.target[1]].progress.total = <<>>)
         => (result' = InvalidTaskType /\ tasks' = tasks /\ out' = <<>>)]_vars

\* C10 witness: increment failed with InvalidTaskType on the current task, a
\* started spinner.
C10_Witness ==
    /\ call.op = "increment"
    /\ result = InvalidTaskType
    /\ tasks[call.target[1]].progress.status = "running"
    /\ out = <<>>

\* C11: finish_task and error_task, and finish and error through them, succeed
\* on an active task whatever its status (pending, running or in progress, full
\* or not); the task is out of the active set before the snapshot is printed, so
\* the one line printed holds exactly the tasks that stay active, unchanged, and
\* never the terminated task.
C11_EvictThenEmit ==
    [][(call'.op \in EvictingOps /\ call'.target # <<>> /\ call'.target[1] \in DOMAIN tasks) =>
         LET name == call'.target[1] IN
         /\ result' = Ok
         /\ tasks' = Forget(tasks, name)
         /\ out' = <<to_json_string(values(Forget(tasks, name)))>>
         /\ name \notin PrintedNames']_vars

\* A finish or an error took a task out while another, in progress, stayed and
\* was printed.
C11_Witness ==
    /\ call.op \in EvictingOps
    /\ result = Ok
    /\ \E n \in DOMAIN tasks : tasks[n].progress.status = "in_progress"
    /\ PrintedNames = DOMAIN tasks
    /\ call.target[1] \in DOMAIN dropped

\* C12: start, increment, finish and error without a name fail with
\* NonexistentTask, acting on no task and changing none, when no task is active,
\* whatever names the queue still holds; when a task is active they act on an
\* active task and do not fail with NonexistentTask.
C12_ImplicitResolves ==
    [][call'.op \in ImplicitOps =>
         IF DOMAIN tasks = {}
         THEN result' = NonexistentTask /\ call'.target = <<>> /\ tasks' = tasks
         ELSE /\ call'.target # <<>>
              /\ call'.target[1] \in DOMAIN tasks
              /\ result' # NonexistentTask]_vars

\* An implicit operation failed for want of an active task after tasks had been
\* added and evicted, their names left behind in the queue.
C12_Witness ==
    /\ call.op \in ImplicitOps
    /\ result = NonexistentTask
    /\ Cardinality(DOMAIN dropped) = 2
    /\ task_list = <<>>

\* C13: in a manager that is not silent a call prints if and only if it is a
\* successful start, increment, finish or error, by name or not; it then prints
\* exactly one line, the snapshot of all the tasks active after the call.
\* add_task, get_task and every failed call print nothing.
C13_SnapshotIffSuccess ==
    out = IF call.op \in (StartOps \cup IncrementOps \cup EvictingOps) /\ result = Ok
          THEN <<to_json_string(values(tasks))>>
          ELSE <<>>

\* A successful increment printed one line with both active tasks.
C13_Witness ==
    /\ ~silent
    /\ call.op \in IncrementOps
    /\ result = Ok
    /\ Len(out) = 1
    /\ BagCardinality(out[1]) = 2

\* C14: every task object printed carries the task's name and, next to it at
\* the top level of the same object, the key "status" with the status
\* discriminant.
C14_StatusAtTopLevel ==
    \A object \in PrintedObjects : {"name", "status"} \subseteq Keys(object)

\* C14, as the code has it: every task object printed has exactly the members
\* "name" and "progress", in this order; the status discriminant and the
\* variant's fields are the members of the object under "progress", the
\* discriminant first, and no discriminant is at the top level.  A lone spinner
\* A just started is printed as [{"name":"A","progress":{"status":"running"}}]
\* and the finish or error of the last active task prints [], by a manager
\* that is not silent.
C14_StatusUnderProgress ==
    /\ \A object \in PrintedObjects :
          /\ Len(object) = 2
          /\ object[1][1] = "name"
          /\ object[2][1] = "progress"
          /\ object[1][2].string \in DOMAIN tasks
          /\ LET inner == object[2][2].object
                 progress == tasks[object[1][2].string].progress
             IN /\ inner[1] = <<"status", JStr(progress.status)>>
                /\ Keys(inner) = (DOMAIN progress)
                /\ \A key \in Keys(inner) \ {"status"} :
                      MemberValue(inner, key) =
                         CASE progress.status = "pending" ->
                                (IF progress.total = <<>> THEN JNull
                                 ELSE JNum(progress.total[1]))
                           [] progress.status = "error" -> JStr(progress.message)
                           [] OTHER -> JNum(progress[key])
    /\ (call.op \in StartOps /\ result = Ok /\ ~silent /\ DOMAIN tasks = {"A"}
           /\ tasks["A"].progress = Running)
       => out = <<SetToBag({<<<<"name", JStr("A")>>,
                              <<"progress", JObj(<<<<"status", JStr("running")>>>>)>>>>})>>
    /\ (call.op \in EvictingOps /\ result = Ok /\ ~silent /\ DOMAIN tasks = {})
       => out = <<EmptyBag>>

\* start() on the lone spinner A printed the object with the status under
\* "progress".
C14_Witness ==
    /\ call.op = "start"
    /\ result = Ok
    /\ DOMAIN tasks = {"A"}
    /\ \E object \in PrintedObjects :
          /\ Keys(object) = {"name", "progress"}
          /\ MemberValue(object, "name") = JStr("A")
          /\ MemberValue(object, "progress") = JObj(<<<<"status", JStr("running")>>>>)

\* C15: a silent manager prints nothing, whatever the call, and after every
\* sequence of calls it has returned the same result and holds the same tasks,
\* with the same statuses, and the same queue as the manager that is not silent
\* and was given the same calls.
C15_SilentSameAsLoud ==
    /\ twin.m.silent
    /\ ~silent
    /\ twin.out = <<>>
    /\ twin.result = result
    /\ twin.m.tasks = tasks
    /\ twin.m.task_list = task_list

\* A call printed a snapshot of an active task while the silent twin, in the
\* same state after the same call, printed nothing.
C15_Witness ==
    /\ twin.m.silent
    /\ ~silent
    /\ result = Ok
    /\ PrintedNames # {}
    /\ twin.out = <<>>
    /\ twin.m.tasks = tasks

\* C16: every call of the manager, for every argument and in every reachable
\* state, returns success or one of the five InterprogError values and never
\* aborts the process, an increment whose done + by passes the largest usize
\* included.
C16_NeverAborts ==
    /\ result \in {Ok} \cup InterprogError
    /\ ~aborted

\* An increment_task of an iterative task below its total, with a `by` that
\* takes done + by past the largest usize, aborted the process.
C16_Witness ==
    /\ call.op = "increment_task"
    /\ call.by = <<UsizeMax>>
    /\ result = Panic
    /\ aborted
    /\ tasks[call.target[1]].progress.status = "in_progress"
    /\ tasks[call.target[1]].progress.done + UsizeMax > UsizeMax

\* The other way a call aborts: a start_task of a pending task set its status,
\* and println! panicked on a standard output that could not be written.
C16_AbortOnFailedStdout ==
    /\ call.op = "start_task"
    /\ stdout = "failing"
    /\ result = Panic
    /\ aborted
    /\ tasks[call.target[1]].progress = Running
    /\ out = <<>>

\* The first name of the queue whose task is active, None when there is none.
FirstActive(queue, active) ==
    LET live == {i \in 1..Len(queue) : queue[i] \in active} IN
    IF live = {} THEN <<>>
    ELSE <<queue[CHOOSE i \in live : \A j \in live : i <= j]>>

\* The outcomes, one per build, of the explicit operation that goes with the
\* implicit call c, applied by name to the manager m.
ExplicitOutcomes(m, c, name) ==
    CASE c.op = "start" -> {start_task(m, name)}
      [] c.op = "increment" -> {increment_task(m, name, c.by[1], checked) : checked \in BOOLEAN}
      [] c.op = "finish" -> {finish_task(m, name)}
      [] c.op = "error" -> {error_task(m, name, c.message[1])}

\* C17: start(), increment(by), finish() and error(message) return the same
\* result, leave the same tasks active with the same statuses and print the same
\* snapshot as start_task, increment_task, finish_task and error_task called, in
\* the same state and with the same arguments, on the first name of the queue
\* whose task is active.
C17_ImplicitAsExplicitOnFirstActive ==
    [][(call'.op \in ImplicitOps /\ FirstActive(task_list, DOMAIN tasks) # <<>>) =>
         LET name == FirstActive(task_list, DOMAIN tasks)[1] IN
         /\ call'.target = <<name>>
         /\ \E o \in ExplicitOutcomes(Manager, call', name) :
               /\ result' = o.result
               /\ tasks' = o.m.tasks
               /\ out' = o.out]_vars

\* An implicit increment acted on B, queued behind the name of the evicted A,
\* and printed the snapshot.
C17_Witness ==
    /\ call.op = "increment"
    /\ result = Ok
    /\ call.target = <<"B">>
    /\ "A" \in DOMAIN dropped
    /\ "A" \notin DOMAIN tasks
    /\ PrintedNames = {"B"}

\* C18: a task leaves the active set only in a successful finish or error that
\* acts on it (finish_task and error_task act on the name they are given), and
\* a name enters it only in a successful add_task of a task of that name.  No
\* other call, and no failed call, removes or adds a task, and a call leaves
\* every task other than the one it acts on as it was.
C18_OnlyAddEntersOnlyFinishLeaves ==
    [][/\ call'.op \in ExplicitOps => call'.target = call'.name
       /\ result' # Ok => tasks' = tasks
       /\ call'.op \notin (EvictingOps \cup {"add_task"}) => DOMAIN tasks' = DOMAIN tasks
       /\ \A n \in Names :
             /\ (n \in DOMAIN tasks /\ n \notin DOMAIN tasks')
                => (call'.op \in EvictingOps /\ result' = Ok /\ call'.target = <<n>>)
             /\ (n \notin DOMAIN tasks /\ n \in DOMAIN tasks')
                => (call'.op = "add_task" /\ result' = Ok /\ call'.task[1].name = n)
             /\ (n \in DOMAIN tasks /\ n \in DOMAIN tasks' /\ call'.target # <<n>>)
                => tasks'[n] = tasks[n]]_vars

\* A successful increment by name moved one task on while the other, pending,
\* stayed active.
C18_Witness ==
    /\ call.op = "increment_task"
    /\ result = Ok
    /\ Cardinality(DOMAIN tasks) = 2
    /\ \E n \in DOMAIN tasks : n # call.target[1] /\ tasks[n].progress.status = "pending"
    /\ tasks[call.target[1]].progress.status = "in_progress"

\* The total of an iterative task, None for a spinner.
TotalOf(progress) ==
    CASE progress.status = "pending" -> progress.total
      [] progress.status = "in_progress" -> <<progress.total>>
      [] OTHER -> <<>>

\* The active iterative tasks with a total of at least 1 that, since they were
\* added, were never started and never incremented but by increment_task(name, 1).
CountedByOne ==
    {n \in DOMAIN tasks :
        /\ units[n] >= 0
        /\ TotalOf(tasks[n].progress) # <<>>
        /\ TotalOf(tasks[n].progress)[1] >= 1}

\* C19: for iterative tasks added with a total t >= 1 and never started by
\* name, the calls increment_task(name, 1), in whatever order across the tasks,
\* succeed exactly t times for each task, the first one taking it from pending
\* to done = 1, and every later one fails with TaskAlreadyFinished and changes
\* nothing, whatever was done to the other tasks and whatever was finished
\* before.
C19_UnitIncrementsSucceedTotalTimes ==
    /\ [](\A n \in CountedByOne :
             LET t == TotalOf(tasks[n].progress)[1] IN
             /\ units[n] <= t
             /\ tasks[n].progress =
                   IF units[n] = 0 THEN Pending(<<t>>) ELSE InProgress(units[n], t))
    /\ [][(call'.op = "increment_task" /\ call'.by = <<1>>
              /\ call'.name[1] \in CountedByOne) =>
            LET n == call'.name[1]
                t == TotalOf(tasks[n].progress)[1]
            IN IF units[n] < t
               THEN /\ result' = Ok
                    /\ units'[n] = units[n] + 1
                    /\ tasks' = [tasks EXCEPT ![n].progress = InProgress(units[n] + 1, t)]
               ELSE /\ result' = TaskAlreadyFinished
                    /\ units' = units
                    /\ tasks' = tasks]_vars

\* A task took all its unit increments and the next one failed, while the other
\* task was part of the way and a name finished earlier was still queued.
C19_Witness ==
    /\ call.op = "increment_task"
    /\ call.by = <<1>>
    /\ result = TaskAlreadyFinished
    /\ units[call.target[1]] = MaxTotal
    /\ tasks[call.target[1]].progress = InProgress(MaxTotal, MaxTotal)
    /\ \E n \in CountedByOne : units[n] \in 1..(MaxTotal - 1)
    /\ Len(task_list) > Cardinality(DOMAIN tasks)

\* C20: with n tasks active and no add_task in between, exactly n finish() or
\* error() calls in a row succeed and each evicts one task, and the next one
\* fails with NonexistentTask: such a call succeeds and takes exactly one task
\* out whenever a task is active, and fails with NonexistentTask, changing
\* nothing, when none is.  On a new manager add_task, start() and finish()
\* succeed and a second finish() fails with NonexistentTask.
C20_ImplicitFinishCountsDown ==
    [][/\ call'.op \in {"finish", "error"} =>
            IF DOMAIN tasks # {}
            THEN /\ result' = Ok
                 /\ Cardinality(DOMAIN tasks') = Cardinality(DOMAIN tasks) - 1
                 /\ \E n \in DOMAIN tasks : tasks' = Forget(tasks, n)
            ELSE /\ result' = NonexistentTask
                 /\ tasks' = tasks
       /\ (call'.op = "add_task" /\ DOMAIN tasks = {}) =>
            (result' = Ok /\ DOMAIN tasks' = {call'.task[1].name})
       /\ (call'.op = "start" /\ call.op = "add_task" /\ result = Ok
              /\ Cardinality(DOMAIN tasks) = 1) =>
            (result' = Ok /\ DOMAIN tasks' = DOMAIN tasks)]_vars

\* Two tasks were active, two implicit finishes or errors evicted them and the
\* third call found no task.
C20_Witness ==
    /\ call.op \in {"finish", "error"}
    /\ result = NonexistentTask
    /\ DOMAIN tasks = {}
    /\ added = <<>>
    /\ DOMAIN dropped = Names
    /\ out = <<>>

\* The run of get_first_task's loop in the current state, given as many
\* iterations as the queue has entries, and the iterations it takes.
LoopRun == get_first_task_within(Manager, Len(task_list))
LoopIterations == Len(task_list) - LoopRun.left

\* C21: every operation returns.  The only loop, the one of get_first_task that
\* skips stale names, takes one entry off the queue per iteration and returns
\* within as many iterations as the queue has entries, at an active name or,
\* with the queue emptied, with NonexistentTask; start, increment, finish and
\* error leave the queue as this loop leaves it.
C21_ResolutionLoopEnds ==
    /\ [](/\ LoopRun.ended
          /\ LoopIterations \in 0..Len(task_list)
          /\ LoopRun.m.task_list =
                SubSeq(task_list, LoopIterations + 1, Len(task_list))
          /\ IF LoopRun.name = <<>>
             THEN LoopRun.m.task_list = <<>>
             ELSE LoopRun.name[1] \in DOMAIN tasks
          /\ get_first_task(Manager) = [m |-> LoopRun.m, name |-> LoopRun.name])
    /\ [][call'.op \in ImplicitOps =>
            /\ task_list' = LoopRun.m.task_list
            /\ call'.target = LoopRun.name
            /\ (LoopRun.name = <<>>) = (result' = NonexistentTask)]_vars

\* The queue holds two stale names in front of an active one: the loop takes
\* two iterations and returns the third name.
C21_Witness ==
    /\ Len(task_list) = 3
    /\ LoopIterations = 2
    /\ LoopRun.ended
    /\ LoopRun.name = <<task_list[3]>>
    /\ call.op \in ImplicitOps

\* The names in the queue.
Queued == {task_list[i] : i \in 1..Len(task_list)}

\* C22: only add_task and the resolution of the current task change the queue.
\* A successful add_task appends its name at the back and a failed one changes
\* nothing; start_task, increment_task, finish_task, error_task and get_task
\* leave the queue as it is; start, increment, finish and error take names off
\* the front only, none of them the name of an active task.  So the name of a
\* task just evicted is still in the queue, as a stale entry.
C22_QueueChangesOnlyByAddAndResolution ==
    [][/\ call'.op \in ExplicitOps => task_list' = task_list
       /\ call'.op = "add_task" =>
            task_list' = IF result' = Ok
                         THEN Append(task_list, call'.task[1].name)
                         ELSE task_list
       /\ call'.op \in ImplicitOps =>
            \E k \in 0..Len(task_list) :
               /\ task_list' = SubSeq(task_list, k + 1, Len(task_list))
               /\ \A i \in 1..k : task_list[i] \notin DOMAIN tasks
       /\ (call'.op \in EvictingOps /\ result' = Ok) =>
            (call'.target[1] \in Queued' /\ call'.target[1] \notin DOMAIN tasks')]_vars

\* finish_task evicted the task whose name is at the front of the queue, and
\* the name is still there, stale, in front of an active one.
C22_Witness ==
    /\ call.op = "finish_task"
    /\ result = Ok
    /\ Len(task_list) >= 2
    /\ Head(task_list) = call.target[1]
    /\ Head(task_list) \notin DOMAIN tasks
    /\ task_list[2] \in DOMAIN tasks

\* The status q of a task follows the status p of the same task: a started
\* task is not pending again, a spinner stays a spinner and an iterative task
\* iterative with the same total, and done does not go down.
MovesForward(p, q) ==
    /\ q.status = "pending" => p = q
    /\ TotalOf(q) = TotalOf(p)
    /\ p.status = "running" => q.status = "running"
    /\ p.status = "in_progress" => (q.status = "in_progress" /\ q.done >= p.done)

\* C23: while a task is active its status only moves forward: once out of
\* Pending it is never Pending again, a task added without a total is never
\* InProgress, a task added with a total t is never Running and keeps the total
\* t, and its done value never goes down.
C23_StatusMovesForward ==
    [][\A n \in (DOMAIN tasks) \cap (DOMAIN tasks') :
          MovesForward(tasks[n].progress, tasks'[n].progress)]_vars

\* C23 where no sum done + by passes the largest usize: the status moves
\* forward in every step.
C23_StatusMovesForwardNoOverflow ==
    [][(call'.by = <<>> \/ call'.by[1] + MaxTotal - 1 <= UsizeMax) =>
         \A n \in (DOMAIN tasks) \cap (DOMAIN tasks') :
            MovesForward(tasks[n].progress, tasks'[n].progress)]_vars

\* A successful increment by the largest usize left the task, which had been
\* incremented before, with done = 0: the sum wrapped.
C23_Witness ==
    /\ call.op \in IncrementOps
    /\ call.by = <<UsizeMax>>
    /\ result = Ok
    /\ units[call.target[1]] = -1
    /\ tasks[call.target[1]].progress = InProgress(0, MaxTotal)

\* C24: a call that returns an error, whichever of the five, leaves the active
\* set and every active task as they were.  It changes the queue at most by the
\* stale names an implicit call took off its front; a failed call by name, and a
\* failed add_task, leave the queue as it was too.
C24_FailedCallChangesNoTask ==
    [][result' \in InterprogError =>
         /\ tasks' = tasks
         /\ IF call'.op \in ImplicitOps
            THEN \E k \in 0..Len(task_list) :
                    /\ task_list' = SubSeq(task_list, k + 1, Len(task_list))
                    /\ \A i \in 1..k : task_list[i] \notin DOMAIN tasks
            ELSE task_list' = task_list]_vars

\* start() failed on the running task B after the name of the evicted A, queued
\* before B, was taken off the queue.
C24_Witness ==
    /\ call.op = "start"
    /\ result = TaskAlreadyStarted
    /\ task_list = <<"B">>
    /\ added = <<"B">>
    /\ "A" \in DOMAIN dropped
    /\ tasks["B"].progress = Running

\* C25: in every reachable state the name of every active task is in the queue
\* at least once; the queue may hold stale names and the same name more than
\* once as well.
C25_ActiveNamesAreQueued ==
    DOMAIN tasks \subseteq Queued

\* Both tasks are active and queued, the name A twice: it was evicted and added
\* again.
C25_Witness ==
    /\ DOMAIN tasks = {"A", "B"}
    /\ task_list = <<"A", "B", "A">>
    /\ call.op = "add_task"
    /\ result = Ok

\* C26: in every state the manager reaches through add_task, start, increment,
\* finish and error, in either form, every active task has the status Pending,
\* Running or InProgress and is stored under its own name, so no line printed
\* holds a task whose status is finished or error.
C26_ActiveTasksAreNotTerminal ==
    /\ \A n \in DOMAIN tasks :
          /\ tasks[n].name = n
          /\ tasks[n].progress.status \in {"pending", "running", "in_progress"}
    /\ \A object \in PrintedObjects :
          MemberValue(MemberValue(object, "progress").object, "status").string
             \notin {"finished", "error"}

\* A task written out as Finished was added and, when the other task was
\* started, printed with the status finished.
C26_Witness ==
    /\ call.op \in StartOps
    /\ result = Ok
    /\ \E n \in DOMAIN tasks : tasks[n].progress = Finished
    /\ \E object \in PrintedObjects :
          MemberValue(object, "progress") = JObj(<<<<"status", JStr("finished")>>>>)

\* max(1, total - 1 + B), the largest done of a task of this total whose
\* increments were all of B units or fewer.
DoneBound(total, B) == IF total - 1 + B > 1 THEN total - 1 + B ELSE 1

\* C27: the done value of an active InProgress task whose increments were all
\* of at most B units, B >= 1, with no sum passing the largest usize, never
\* exceeds max(1, total - 1 + B).  A task enters InProgress with done 0 or 1; a
\* successful increment of `by` units is applied only while done < total and
\* sets done to done + by, so it keeps done within the bound of every B >= by;
\* once done >= total nothing changes done any more; no other call changes it.
C27_OvershootIsBounded ==
    [][\A n \in DOMAIN tasks' :
          tasks'[n].progress.status = "in_progress" =>
             LET q == tasks'[n].progress IN
             IF n \in DOMAIN tasks /\ tasks[n].progress.status = "in_progress"
             THEN LET p == tasks[n].progress IN
                  /\ p.done >= p.total => q = p
                  /\ q # p =>
                       /\ call'.op \in IncrementOps
                       /\ call'.target = <<n>>
                       /\ result' = Ok
                       /\ p.done + call'.by[1] <= UsizeMax =>
                            /\ q = InProgress(p.done + call'.by[1], p.total)
                            /\ \A B \in 1..UsizeMax :
                                  (call'.by[1] <= B /\ p.done <= DoneBound(p.total, B))
                                  => q.done <= DoneBound(q.total, B)
             ELSE q.done <= 1]_vars

\* A task of total MaxTotal incremented by at most MaxBy units stands at the
\* bound, MaxTotal - 1 + MaxBy, and its next increment was refused.
C27_Witness ==
    /\ call.op \in IncrementOps
    /\ call.by[1] \in 1..MaxBy
    /\ result = TaskAlreadyFinished
    /\ tasks[call.target[1]].progress = InProgress(MaxTotal - 1 + MaxBy, MaxTotal)

\* ------------------------------------------------------------- what the types leave open
\* A printed array holds two equal objects: key B holds a task the caller
\* renamed A and set to the status the task under key A then reached.
SnapshotHoldsEqualTasks ==
    /\ result = Ok
    /\ Len(out) = 1
    /\ BagCardinality(out[1]) = 2
    /\ Cardinality(BagToSet(out[1])) = 1

\* A Finished task is in the map, added written out or written through
\* get_task's reference: the start that resolved to it failed with
\* TaskAlreadyStarted.
FinishedStaysActive ==
    /\ call.op = "start"
    /\ result = TaskAlreadyStarted
    /\ call.target # <<>>
    /\ tasks[call.target[1]].progress = Finished
====
